---- MODULE Spec2Model ----
(***************************************************************************)
(* ccc: a command-line manager of named credential profiles.  Each        *)
(* invocation (list, add, update, delete, activate) loads the collection   *)
(* from the store file beside the executable, works on it in memory,       *)
(* saves it, and, for activate, writes the chosen profile to the           *)
(* platform's settings (a JSON file on linux/darwin, environment variables *)
(* on windows).  One action of this module is one invocation of main().    *)
(***************************************************************************)
EXTENDS Integers, Sequences, FiniteSets, TLC

(***************************************************************************)
(* Bounds of the model.                                                    *)
(***************************************************************************)
\* The longest collection an add may produce.
MaxConfigurations == 2
\* The longest API key maskAPIKey is applied to.
MaxKeyLen == 10
\* The most labels of a hostname extractDomainFromURL is applied to.
MaxLabels == 4

(***************************************************************************)
(* Strings.  A Go string is a byte string: a command-line argument may     *)
(* hold bytes that are not valid UTF-8.  "0xFF" stands for such a string   *)
(* (the single byte 0xFF) and "U+FFFD" for the string holding the Unicode  *)
(* replacement character, which encoding/json substitutes for it.          *)
(***************************************************************************)
InvalidUTF8 == "0xFF"
ReplacementChar == "U+FFFD"

\* Names given with -n (never empty: main rejects an empty name).
Names == {"a", InvalidUTF8, ReplacementChar}
\* Base URLs given with -u, or found in the platform settings.
URLs == {"https://api.a.com", "https://b.test"}
\* API keys given with -k, or found in the platform settings.
Keys == {"k1", "k2"}

\* The hostname url.Parse(...).Hostname() finds in each URL, as its labels.
Hostname(baseURL) ==
    CASE baseURL = "https://api.a.com" -> <<"api", "a", "com">>
      [] baseURL = "https://b.test" -> <<"b", "test">>
      [] OTHER -> <<>>

\* encoding/json writes and reads strings coerced to valid UTF-8: every
\* invalid byte becomes U+FFFD.
ToValidUTF8(s) == IF s = InvalidUTF8 THEN ReplacementChar ELSE s

(***************************************************************************)
(* File permissions, as numbers (0644 = 420, umask 022 = 18, 077 = 63).    *)
(***************************************************************************)
\* The permission saveConfig asks os.WriteFile for: 0644.
ConfigPerm == 420

\* The umask of the invoking process: 022, the default.
Umasks == {18}

RECURSIVE AndNot(_, _)
\* a &^ b on naturals.
AndNot(a, b) ==
    IF a = 0 THEN 0
    ELSE (IF a % 2 = 1 /\ b % 2 = 0 THEN 1 ELSE 0) + 2 * AndNot(a \div 2, b \div 2)

(***************************************************************************)
(* Configurations (type Configuration) and the store file.                 *)
(***************************************************************************)
Configuration(name, baseURL, apiKey, active) ==
    [name |-> name, base_url |-> baseURL, api_key |-> apiKey, active |-> active]

\* The store file: absent, holding JSON that does not parse (corrupt), or
\* holding a ConfigFile (ok).  mode is the file's permission bits.
AbsentStore == [kind |-> "absent", confs |-> <<>>, mode |-> 0]

\* The conditions an invocation may run under: none, or one I/O failure that
\* lasts for the whole invocation.  "diskFull": os.WriteFile opens (creates
\* and truncates) the file and then fails to write it; "settingsWriteErr" is
\* the same failure on the settings file.
StoreFaults == {"none", "storeReadErr", "storeOpenErr", "diskFull"}
SettingsFaults == {"mkdirErr", "settingsReadErr", "settingsOpenErr", "settingsWriteErr"}
Faults == StoreFaults \cup SettingsFaults

\* json.MarshalIndent(config): the fields of each entry, strings coerced.
MarshalConfig(confs) ==
    [i \in DOMAIN confs |->
        Configuration(ToValidUTF8(confs[i].name), ToValidUTF8(confs[i].base_url),
                      ToValidUTF8(confs[i].api_key), confs[i].active)]

\* json.Unmarshal(data, &configFile) on data that parses.
UnmarshalConfig(data) ==
    [i \in DOMAIN data |->
        Configuration(ToValidUTF8(data[i].name), ToValidUTF8(data[i].base_url),
                      ToValidUTF8(data[i].api_key), data[i].active)]

\* The mode of a file after os.WriteFile(path, data, perm): perm less the
\* umask when the file is created, the file's own mode when it exists.
WriteFileMode(kind, mode, perm, umask) ==
    IF kind = "absent" THEN AndNot(perm, umask) ELSE mode

\* saveConfig: the error returned and the store file afterwards.
saveConfig(st, confs, umask, fault) ==
    IF fault = "storeOpenErr" THEN [err |-> "IOError", store |-> st]
    ELSE IF fault = "diskFull"
    THEN [err |-> "IOError",
          store |-> [kind |-> "corrupt", confs |-> <<>>,
                     mode |-> WriteFileMode(st.kind, st.mode, ConfigPerm, umask)]]
    ELSE [err |-> "",
          store |-> [kind |-> "ok", confs |-> MarshalConfig(confs),
                     mode |-> WriteFileMode(st.kind, st.mode, ConfigPerm, umask)]]

\* findConfiguration: the index of the first entry with that name, 0 for nil.
findConfiguration(confs, name) ==
    IF \E i \in DOMAIN confs : confs[i].name = name
    THEN CHOOSE i \in DOMAIN confs :
            /\ confs[i].name = name
            /\ \A j \in DOMAIN confs : confs[j].name = name => i <= j
    ELSE 0

\* Mutant of setActiveConfiguration: the entry named becomes active and no
\* other entry is deactivated.
setActiveConfiguration_KeepsOthers(confs, activeName) ==
    [i \in DOMAIN confs |->
        [confs[i] EXCEPT !.active = (@ \/ confs[i].name = activeName)]]

\* Mutant of setActiveConfiguration: the entry named has its flag flipped.
setActiveConfiguration_Toggles(confs, activeName) ==
    [i \in DOMAIN confs |->
        [confs[i] EXCEPT !.active = (confs[i].name = activeName /\ ~@)]]

\* setActiveConfiguration: Active of every entry becomes Name == activeName.
setActiveConfiguration(confs, activeName) ==
    [i \in DOMAIN confs |-> [confs[i] EXCEPT !.active = (confs[i].name = activeName)]]

(***************************************************************************)
(* The platform settings.                                                  *)
(***************************************************************************)
\* The keys of the env map the model follows; the last is a key ccc does
\* not know.
EnvKeys == {"ANTHROPIC_AUTH_TOKEN", "ANTHROPIC_BASE_URL", "API_TIMEOUT_MS",
            "CLAUDE_CODE_DISABLE_NONESSENTIAL_TRAFFIC", "HTTP_PROXY"}

\* A value of the env map (interface{}): absent, a string or a number.
Absent == [t |-> "absent", s |-> "", n |-> 0]
Str(s) == [t |-> "str", s |-> s, n |-> 0]
Num(n) == [t |-> "num", s |-> "", n |-> n]

NoEnv == [k \in EnvKeys |-> Absent]

\* ~/.claude/settings.json: absent, not parseable into ClaudeSettings
\* (corrupt), or a JSON object (ok) with its env map (hasEnv: the object has
\* a non-null "env") and the set of its other top-level keys.
AbsentSettings == [kind |-> "absent", hasEnv |-> FALSE, env |-> NoEnv, top |-> {}]
CorruptSettings == [kind |-> "corrupt", hasEnv |-> FALSE, env |-> NoEnv, top |-> {}]

\* NewClaudeSettings: the default skeleton.
NewClaudeSettings ==
    [hasEnv |-> TRUE,
     env |-> [k \in EnvKeys |->
                CASE k = "ANTHROPIC_AUTH_TOKEN" -> Str("")
                  [] k = "ANTHROPIC_BASE_URL" -> Str("")
                  [] k = "API_TIMEOUT_MS" -> Str("3000000")
                  [] k = "CLAUDE_CODE_DISABLE_NONESSENTIAL_TRAFFIC" -> Num(1)
                  [] OTHER -> Absent]]

\* A JSON value decoded into interface{} and encoded again: a string is
\* coerced to valid UTF-8; a number becomes a float64, which holds every
\* integer of the model exactly.
DecodeValue(v) == IF v.t = "str" THEN Str(ToValidUTF8(v.s)) ELSE v

\* json.Unmarshal(data, &settings) on a file that parses: ClaudeSettings has
\* the one field Env, so every other top-level key is dropped.
UnmarshalSettings(file) ==
    [hasEnv |-> file.hasEnv, env |-> [k \in EnvKeys |-> DecodeValue(file.env[k])]]

\* json.MarshalIndent(settings): an object with the one key "env".
MarshalSettings(settings) ==
    [kind |-> "ok", hasEnv |-> settings.hasEnv,
     env |-> [k \in EnvKeys |-> DecodeValue(settings.env[k])], top |-> {}]

\* The env map with key k set to value v.
SetEnv(env, k, v) == [env EXCEPT ![k] = v]

\* Mutant of SetEnvDefault: sets the default whether or not the key exists.
SetEnvDefault_Overwrites(env, k, v) == SetEnv(env, k, v)

\* The env map with key k set to v unless the key exists.
SetEnvDefault(env, k, v) == IF env[k].t = "absent" THEN SetEnv(env, k, v) ELSE env

\* Mutant of applyConfiguration: the two values go to each other's key.
applyConfiguration_Swapped(env, conf) ==
    SetEnv(SetEnv(env, "ANTHROPIC_AUTH_TOKEN", Str(conf.base_url)),
           "ANTHROPIC_BASE_URL", Str(conf.api_key))

\* The two identity keys set from the active configuration.
applyConfiguration(env, conf) ==
    SetEnv(SetEnv(env, "ANTHROPIC_AUTH_TOKEN", Str(conf.api_key)),
           "ANTHROPIC_BASE_URL", Str(conf.base_url))

\* Mutant of setUnixSettingsFile: a settings file that does not parse is an
\* error.
setUnixSettingsFile_AbortsOnCorrupt(file, conf, fault) ==
    IF fault = "mkdirErr"
    THEN [err |-> "IOError", warning |-> "", settings |-> file]
    ELSE IF file.kind # "absent" /\ fault = "settingsReadErr"
    THEN [err |-> "IOError", warning |-> "", settings |-> file]
    ELSE IF file.kind = "corrupt"
    THEN [err |-> "CorruptSettings", warning |-> "", settings |-> file]
    ELSE
      LET read == IF file.kind = "ok" THEN UnmarshalSettings(file) ELSE NewClaudeSettings
          env0 == IF read.hasEnv THEN read.env ELSE NoEnv
          env2 == applyConfiguration(env0, conf)
          env3 == SetEnvDefault(env2, "API_TIMEOUT_MS", Str("3000000"))
          env4 == SetEnvDefault(env3, "CLAUDE_CODE_DISABLE_NONESSENTIAL_TRAFFIC", Num(1))
      IN IF fault = "settingsOpenErr"
         THEN [err |-> "IOError", warning |-> "", settings |-> file]
         ELSE IF fault = "settingsWriteErr"
         THEN [err |-> "IOError", warning |-> "", settings |-> CorruptSettings]
         ELSE [err |-> "", warning |-> "",
               settings |-> MarshalSettings([hasEnv |-> TRUE, env |-> env4])]

\* setUnixSettingsFile: the error returned, the warning printed and the
\* settings file afterwards.
setUnixSettingsFile(file, conf, fault) ==
    IF fault = "mkdirErr"
    THEN [err |-> "IOError", warning |-> "", settings |-> file]
    ELSE IF file.kind # "absent" /\ fault = "settingsReadErr"
    THEN [err |-> "IOError", warning |-> "", settings |-> file]
    ELSE
      LET read == IF file.kind = "ok" THEN UnmarshalSettings(file) ELSE NewClaudeSettings
          env0 == IF read.hasEnv THEN read.env ELSE NoEnv
          env2 == applyConfiguration(env0, conf)
          env3 == SetEnvDefault(env2, "API_TIMEOUT_MS", Str("3000000"))
          env4 == SetEnvDefault(env3, "CLAUDE_CODE_DISABLE_NONESSENTIAL_TRAFFIC", Num(1))
          warn == IF file.kind = "corrupt" THEN "CorruptSettings" ELSE ""
      IN IF fault = "settingsOpenErr"
         THEN [err |-> "IOError", warning |-> warn, settings |-> file]
         ELSE IF fault = "settingsWriteErr"
         THEN [err |-> "IOError", warning |-> warn, settings |-> CorruptSettings]
         ELSE [err |-> "", warning |-> warn,
               settings |-> MarshalSettings([hasEnv |-> TRUE, env |-> env4])]

\* The user's persistent environment on windows: the two variables, "" for
\* unset.
NoWinEnv == [base_url |-> "", auth_token |-> ""]

\* setWindowsEnvironmentVariables: os.Setenv changes this process alone; each
\* setx changes the persistent environment, and its failure is a warning.
setWindowsEnvironmentVariables(env, conf, fault) ==
    [err |-> "",
     warning |-> IF fault \in {"setxBaseURLErr", "setxAuthTokenErr"}
                 THEN "SetxFailed" ELSE "",
     winEnv |-> [base_url |-> IF fault = "setxBaseURLErr" THEN env.base_url
                              ELSE conf.base_url,
                 auth_token |-> IF fault = "setxAuthTokenErr" THEN env.auth_token
                                ELSE conf.api_key]]

WindowsFaults == {"setxBaseURLErr", "setxAuthTokenErr"}

(***************************************************************************)
(* First-run auto-import.                                                  *)
(***************************************************************************)
\* strings.TrimPrefix(hostname, "www.") on the labels of a hostname.
TrimWWW(labels) ==
    IF Len(labels) >= 2 /\ labels[1] = "www" THEN Tail(labels) ELSE labels

\* Mutant of extractDomainFromHostname: of three or more labels, the last
\* but one is returned.
extractDomainFromHostname_LastButOne(hostname) ==
    IF hostname = <<>> THEN "default"
    ELSE LET parts == TrimWWW(hostname)
         IN IF Len(parts) >= 2
            THEN (IF Len(parts) >= 3 THEN parts[Len(parts) - 1] ELSE parts[1])
            ELSE parts[1]

\* extractDomainFromURL from the hostname on: the hostname as its labels,
\* <<>> for the empty hostname.
extractDomainFromHostname(hostname) ==
    IF hostname = <<>> THEN "default"
    ELSE LET parts == TrimWWW(hostname)
         IN IF Len(parts) >= 2
            THEN (IF Len(parts) >= 3 THEN parts[2] ELSE parts[1])
            ELSE parts[1]

\* extractDomainFromURL.
extractDomainFromURL(baseURL) ==
    IF baseURL = "" THEN "default"
    ELSE extractDomainFromHostname(Hostname(baseURL))

\* importFromUnixSettings: the imported configuration as a sequence, empty
\* for nil.
importFromUnixSettings(file, fault) ==
    IF file.kind # "ok" \/ fault = "settingsReadErr" THEN <<>>
    ELSE LET settings == UnmarshalSettings(file)
             baseURL == settings.env["ANTHROPIC_BASE_URL"]
             apiKey == settings.env["ANTHROPIC_AUTH_TOKEN"]
         IN IF ~settings.hasEnv THEN <<>>
            ELSE IF baseURL.t # "str" \/ apiKey.t # "str" \/ baseURL.s = "" \/ apiKey.s = ""
            THEN <<>>
            ELSE <<Configuration(extractDomainFromURL(baseURL.s), baseURL.s, apiKey.s, TRUE)>>

\* importFromWindows.
importFromWindows(env) ==
    IF env.base_url = "" \/ env.auth_token = "" THEN <<>>
    ELSE <<Configuration(extractDomainFromURL(env.base_url), env.base_url,
                         env.auth_token, TRUE)>>

\* The switch on runtime.GOOS in loadConfig.
importedConfig(os, file, env, fault) ==
    CASE os = "windows" -> importFromWindows(env)
      [] os = "linux" -> importFromUnixSettings(file, fault)
      [] OTHER -> <<>>

\* Mutant of loadConfig: a first run saves the collection also when nothing
\* was imported.
loadConfig_SavesEmpty(st, imported, umask, fault) ==
    IF st.kind = "absent"
    THEN [err |-> "", confs |-> imported,
          store |-> saveConfig(st, imported, umask, fault).store]
    ELSE IF fault = "storeReadErr"
    THEN [err |-> "IOError", confs |-> <<>>, store |-> st]
    ELSE IF st.kind = "corrupt"
    THEN [err |-> "CorruptStore", confs |-> <<>>, store |-> st]
    ELSE [err |-> "", confs |-> UnmarshalConfig(st.confs), store |-> st]

\* Mutant of loadConfig: auto-import runs also when the store file exists
\* and holds no configuration.
loadConfig_ImportsIntoEmpty(st, imported, umask, fault) ==
    IF st.kind = "absent" \/ (st.kind = "ok" /\ st.confs = <<>> /\ imported # <<>>)
    THEN IF imported # <<>>
         THEN [err |-> "", confs |-> imported,
               store |-> saveConfig(st, imported, umask, fault).store]
         ELSE [err |-> "", confs |-> <<>>, store |-> st]
    ELSE IF fault = "storeReadErr"
    THEN [err |-> "IOError", confs |-> <<>>, store |-> st]
    ELSE IF st.kind = "corrupt"
    THEN [err |-> "CorruptStore", confs |-> <<>>, store |-> st]
    ELSE [err |-> "", confs |-> UnmarshalConfig(st.confs), store |-> st]

\* loadConfig: the error, the collection in memory and the store file
\* afterwards (an import is saved at once, and a failure to save it ignored).
loadConfig(st, imported, umask, fault) ==
    IF st.kind = "absent"
    THEN IF imported # <<>>
         THEN [err |-> "", confs |-> imported,
               store |-> saveConfig(st, imported, umask, fault).store]
         ELSE [err |-> "", confs |-> <<>>, store |-> st]
    ELSE IF fault = "storeReadErr"
    THEN [err |-> "IOError", confs |-> <<>>, store |-> st]
    ELSE IF st.kind = "corrupt"
    THEN [err |-> "CorruptStore", confs |-> <<>>, store |-> st]
    ELSE [err |-> "", confs |-> UnmarshalConfig(st.confs), store |-> st]

(***************************************************************************)
(* The display of an API key.  A key is a Go string: here the sequence of  *)
(* its bytes, which len and the slice expressions of maskAPIKey count.     *)
(***************************************************************************)
RECURSIVE Repeat(_, _)
\* strings.Repeat(s, count) for a one-byte s.
Repeat(b, count) == IF count = 0 THEN <<>> ELSE <<b>> \o Repeat(b, count - 1)

\* Mutant of maskAPIKey: a key of 8 bytes is not masked whole.
maskAPIKey_Below8(apiKey) ==
    IF Len(apiKey) < 8 THEN Repeat("*", Len(apiKey))
    ELSE SubSeq(apiKey, 1, 4) \o Repeat("*", Len(apiKey) - 8)
            \o SubSeq(apiKey, Len(apiKey) - 3, Len(apiKey))

\* maskAPIKey.
maskAPIKey(apiKey) ==
    IF Len(apiKey) <= 8 THEN Repeat("*", Len(apiKey))
    ELSE SubSeq(apiKey, 1, 4) \o Repeat("*", Len(apiKey) - 8)
            \o SubSeq(apiKey, Len(apiKey) - 3, Len(apiKey))

(***************************************************************************)
(* The commands.  Each gives the outcome of one invocation: the error      *)
(* ("" for exit status 0), the warning printed, and the store file, the    *)
(* settings file and the persistent environment afterwards.                *)
(***************************************************************************)
Outcome(err, warning, st, file, env) ==
    [err |-> err, warning |-> warning, store |-> st, settings |-> file, winEnv |-> env]

\* The place of a name in Go's order of strings (byte-wise): "a" is the
\* byte 61, U+FFFD the bytes EF BF BD, and FF the greatest byte.
NameRank(name) ==
    CASE name = "a" -> 1
      [] name = ReplacementChar -> 2
      [] name = InvalidUTF8 -> 3
      [] OTHER -> 0

RECURSIVE sortByName(_)
\* sort.Slice(config.Configurations, by Name): the collection in ascending
\* order of name (entries of one name in the order they had, one of the
\* orders sort.Slice may leave them in).
sortByName(confs) ==
    IF confs = <<>> THEN <<>>
    ELSE LET last == confs[Len(confs)]
             front == sortByName(SubSeq(confs, 1, Len(confs) - 1))
             before(c) == NameRank(c.name) <= NameRank(last.name)
             after(c) == NameRank(c.name) > NameRank(last.name)
         IN SelectSeq(front, before) \o <<last>> \o SelectSeq(front, after)

\* Mutant of listConfigurations: the sorted collection is saved.
listConfigurations_SavesSorted(st, file, env, imported, umask, fault) ==
    LET ld == loadConfig(st, imported, umask, fault)
        sv == saveConfig(ld.store, sortByName(ld.confs), umask, fault)
    IN IF ld.err # "" \/ Len(ld.confs) = 0 THEN Outcome(ld.err, "", ld.store, file, env)
       ELSE Outcome(sv.err, "", sv.store, file, env)

\* listConfigurations: sorts the collection in memory and prints it as a
\* table; nothing is saved.
listConfigurations(st, file, env, imported, umask, fault) ==
    LET ld == loadConfig(st, imported, umask, fault)
        table == IF ld.err # "" \/ Len(ld.confs) = 0 THEN <<>> ELSE sortByName(ld.confs)
    IN Outcome(ld.err, "", ld.store, file, env)

\* Mutant of newConfiguration: the first configuration is not made active.
newConfiguration_NeverActive(confs, name, baseURL, apiKey) ==
    Configuration(name, baseURL, apiKey, FALSE)

\* The entry addConfiguration makes: active when it is the first.
newConfiguration(confs, name, baseURL, apiKey) ==
    Configuration(name, baseURL, apiKey, Len(confs) = 0)

\* Mutant of addConfiguration: a configuration added as the active one is
\* written to the settings file as well.
addConfiguration_WritesSettings(st, file, env, imported, name, baseURL, apiKey, umask, fault) ==
    LET ld == loadConfig(st, imported, umask, fault)
    IN IF ld.err # "" THEN Outcome(ld.err, "", ld.store, file, env)
       ELSE IF findConfiguration(ld.confs, name) # 0
       THEN Outcome("DuplicateName", "", ld.store, file, env)
       ELSE LET newConf == newConfiguration(ld.confs, name, baseURL, apiKey)
                sv == saveConfig(ld.store, Append(ld.confs, newConf), umask, fault)
                u == setUnixSettingsFile(file, newConf, fault)
            IN IF sv.err = "" /\ newConf.active
               THEN Outcome(u.err, u.warning, sv.store, u.settings, env)
               ELSE Outcome(sv.err, "", sv.store, file, env)

\* addConfiguration.
addConfiguration(st, file, env, imported, name, baseURL, apiKey, umask, fault) ==
    LET ld == loadConfig(st, imported, umask, fault)
    IN IF ld.err # "" THEN Outcome(ld.err, "", ld.store, file, env)
       ELSE IF findConfiguration(ld.confs, name) # 0
       THEN Outcome("DuplicateName", "", ld.store, file, env)
       ELSE LET newConf == newConfiguration(ld.confs, name, baseURL, apiKey)
                sv == saveConfig(ld.store, Append(ld.confs, newConf), umask, fault)
            IN Outcome(sv.err, "", sv.store, file, env)

\* Mutant of updateConfiguration: both fields are overwritten, also by the
\* "" of a flag that was not given.
updateConfiguration_OverwritesEmpty(st, file, env, imported, name, baseURL, apiKey, umask, fault) ==
    LET ld == loadConfig(st, imported, umask, fault)
        i == findConfiguration(ld.confs, name)
    IN IF ld.err # "" THEN Outcome(ld.err, "", ld.store, file, env)
       ELSE IF i = 0 THEN Outcome("NotFound", "", ld.store, file, env)
       ELSE LET conf == [ld.confs[i] EXCEPT !.base_url = baseURL, !.api_key = apiKey]
                sv == saveConfig(ld.store, [ld.confs EXCEPT ![i] = conf], umask, fault)
            IN Outcome(sv.err, "", sv.store, file, env)

\* updateConfiguration: "" for a flag that was not given.
updateConfiguration(st, file, env, imported, name, baseURL, apiKey, umask, fault) ==
    LET ld == loadConfig(st, imported, umask, fault)
        i == findConfiguration(ld.confs, name)
    IN IF ld.err # "" THEN Outcome(ld.err, "", ld.store, file, env)
       ELSE IF i = 0 THEN Outcome("NotFound", "", ld.store, file, env)
       ELSE LET conf == [ld.confs[i] EXCEPT
                            !.base_url = IF baseURL # "" THEN baseURL ELSE @,
                            !.api_key = IF apiKey # "" THEN apiKey ELSE @]
                sv == saveConfig(ld.store, [ld.confs EXCEPT ![i] = conf], umask, fault)
            IN Outcome(sv.err, "", sv.store, file, env)

\* Mutant of deleteConfiguration: every configuration found is guarded,
\* active or not.
deleteConfiguration_RefusesAll(st, file, env, imported, name, umask, fault) ==
    LET ld == loadConfig(st, imported, umask, fault)
        i == findConfiguration(ld.confs, name)
    IN IF ld.err # "" THEN Outcome(ld.err, "", ld.store, file, env)
       ELSE IF i = 0 THEN Outcome("NotFound", "", ld.store, file, env)
       ELSE Outcome("ActiveProfileDeletion", "", ld.store, file, env)

\* Mutant of deleteConfiguration: the active configuration is not guarded.
deleteConfiguration_Unguarded(st, file, env, imported, name, umask, fault) ==
    LET ld == loadConfig(st, imported, umask, fault)
        i == findConfiguration(ld.confs, name)
        keep(c) == c.name # name
    IN IF ld.err # "" THEN Outcome(ld.err, "", ld.store, file, env)
       ELSE IF i = 0 THEN Outcome("NotFound", "", ld.store, file, env)
       ELSE LET sv == saveConfig(ld.store, SelectSeq(ld.confs, keep), umask, fault)
            IN Outcome(sv.err, "", sv.store, file, env)

\* deleteConfiguration.
deleteConfiguration(st, file, env, imported, name, umask, fault) ==
    LET ld == loadConfig(st, imported, umask, fault)
        i == findConfiguration(ld.confs, name)
        keep(c) == c.name # name
    IN IF ld.err # "" THEN Outcome(ld.err, "", ld.store, file, env)
       ELSE IF i = 0 THEN Outcome("NotFound", "", ld.store, file, env)
       ELSE IF ld.confs[i].active
       THEN Outcome("ActiveProfileDeletion", "", ld.store, file, env)
       ELSE LET sv == saveConfig(ld.store, SelectSeq(ld.confs, keep), umask, fault)
            IN Outcome(sv.err, "", sv.store, file, env)

\* Mutant of activateConfiguration: the platform's settings are written
\* first, and the collection is saved when that went well.
activateConfiguration_PlatformFirst(os, st, file, env, imported, name, umask, fault) ==
    LET ld == loadConfig(st, imported, umask, fault)
        i == findConfiguration(ld.confs, name)
    IN IF ld.err # "" THEN Outcome(ld.err, "", ld.store, file, env)
       ELSE IF i = 0 THEN Outcome("NotFound", "", ld.store, file, env)
       ELSE LET confs == setActiveConfiguration(ld.confs, name)
                sv == saveConfig(ld.store, confs, umask, fault)
            IN CASE os = "windows" ->
                      LET w == setWindowsEnvironmentVariables(env, confs[i], fault)
                      IN Outcome(sv.err, w.warning, sv.store, file, w.winEnv)
                 [] os = "linux" ->
                      LET u == setUnixSettingsFile(file, confs[i], fault)
                      IN IF u.err # ""
                         THEN Outcome(u.err, u.warning, ld.store, u.settings, env)
                         ELSE Outcome(sv.err, u.warning, sv.store, u.settings, env)
                 [] OTHER -> Outcome("", "UnsupportedPlatform", ld.store, file, env)

\* activateConfiguration.
activateConfiguration(os, st, file, env, imported, name, umask, fault) ==
    LET ld == loadConfig(st, imported, umask, fault)
        i == findConfiguration(ld.confs, name)
    IN IF ld.err # "" THEN Outcome(ld.err, "", ld.store, file, env)
       ELSE IF i = 0 THEN Outcome("NotFound", "", ld.store, file, env)
       ELSE LET confs == setActiveConfiguration(ld.confs, name)
                sv == saveConfig(ld.store, confs, umask, fault)
            IN IF sv.err # "" THEN Outcome(sv.err, "", sv.store, file, env)
               ELSE CASE os = "windows" ->
                         LET w == setWindowsEnvironmentVariables(env, confs[i], fault)
                         IN Outcome(w.err, w.warning, sv.store, file, w.winEnv)
                      [] os = "linux" ->
                         LET u == setUnixSettingsFile(file, confs[i], fault)
                         IN Outcome(u.err, u.warning, sv.store, u.settings, env)
                      [] OTHER -> Outcome("", "UnsupportedPlatform", sv.store, file, env)

(***************************************************************************)
(* The state: the platform, the files and the environment, which outlast   *)
(* an invocation, and the invocation under way: where it is (pc), its      *)
(* command line (args), and the error and warning it ended with.           *)
(***************************************************************************)
VARIABLES goos, store, settings, winEnv, pc, args, result, warning

vars == <<goos, store, settings, winEnv, pc, args, result, warning>>

\* runtime.GOOS: linux stands for linux and darwin, plan9 for any other.
Platforms == {"linux", "windows", "plan9"}

\* The store before the first invocation: absent, or holding no
\* configurations (a file of the user's, with the mode ccc would give it).
InitialStores ==
    {AbsentStore} \cup
    {[kind |-> "ok", confs |-> <<>>, mode |-> AndNot(ConfigPerm, u)] : u \in Umasks}

\* The settings file before the first invocation.
InitialSettings ==
    { AbsentSettings,
      CorruptSettings,
      [kind |-> "ok", hasEnv |-> FALSE, env |-> NoEnv, top |-> {"model"}],
      [kind |-> "ok", hasEnv |-> TRUE, top |-> {"permissions"},
       env |-> [NoEnv EXCEPT !["ANTHROPIC_BASE_URL"] = Str("https://api.a.com"),
                             !["ANTHROPIC_AUTH_TOKEN"] = Str("k1"),
                             !["API_TIMEOUT_MS"] = Str("600000"),
                             !["CLAUDE_CODE_DISABLE_NONESSENTIAL_TRAFFIC"] = Num(0),
                             !["HTTP_PROXY"] = Str("http://proxy.test")]],
      [kind |-> "ok", hasEnv |-> TRUE, top |-> {},
       env |-> [NoEnv EXCEPT !["ANTHROPIC_BASE_URL"] = Num(7),
                             !["ANTHROPIC_AUTH_TOKEN"] = Str("k1")]] }

\* The persistent environment before the first invocation.
InitialWinEnvs ==
    { NoWinEnv,
      [base_url |-> "https://api.a.com", auth_token |-> "k1"],
      [base_url |-> "https://api.a.com", auth_token |-> ""] }

\* os.Args as main reads them: the command and the values of -n, -u and -k
\* ("" for a flag not given).
CommandLine(command, name, baseURL, apiKey) ==
    [cmd |-> command, name |-> name, base_url |-> baseURL, api_key |-> apiKey]

NoArgs == CommandLine("", "", "", "")

\* The command lines main accepts: add needs all three flags, the others a
\* name, update takes -u and -k or not.
CommandLines ==
    {CommandLine("list", "", "", "")}
    \cup {CommandLine("add", n, u, k) : n \in Names, u \in URLs, k \in Keys}
    \cup {CommandLine("update", n, u, k) :
            n \in Names, u \in URLs \cup {""}, k \in Keys \cup {""}}
    \cup {CommandLine(c, n, "", "") : c \in {"delete", "activate"}, n \in Names}

Init ==
    /\ goos \in Platforms
    /\ store \in InitialStores
    /\ settings \in (IF goos = "linux" THEN InitialSettings ELSE {AbsentSettings})
    /\ winEnv \in (IF goos = "windows" THEN InitialWinEnvs ELSE {NoWinEnv})
    /\ pc = "shell"
    /\ args = NoArgs
    /\ result = ""
    /\ warning = ""

\* The user runs ccc with a command line.
Start(a) ==
    /\ pc = "shell"
    /\ pc' = "main"
    /\ args' = a
    /\ UNCHANGED <<goos, store, settings, winEnv, result, warning>>

\* What first-run auto-import finds in the current state.
Imported(fault) == importedConfig(goos, settings, winEnv, fault)

\* The faults a command that only loads and saves the store can meet.
LoadFaults == StoreFaults

\* main runs command to its end, with outcome out.
Invoke(command, out) ==
    /\ pc = "main"
    /\ args.cmd = command
    /\ Len(out.store.confs) <= MaxConfigurations
    /\ pc' = "exit"
    /\ result' = out.err
    /\ warning' = out.warning
    /\ store' = out.store
    /\ settings' = out.settings
    /\ winEnv' = out.winEnv
    /\ UNCHANGED <<goos, args>>

List ==
    \E umask \in Umasks, fault \in LoadFaults :
        Invoke("list", listConfigurations(store, settings, winEnv, Imported(fault),
                                          umask, fault))

Add ==
    \E umask \in Umasks, fault \in LoadFaults :
        Invoke("add", addConfiguration(store, settings, winEnv, Imported(fault),
                                       args.name, args.base_url, args.api_key,
                                       umask, fault))

Update ==
    \E umask \in Umasks, fault \in LoadFaults :
        Invoke("update", updateConfiguration(store, settings, winEnv, Imported(fault),
                                             args.name, args.base_url, args.api_key,
                                             umask, fault))

Delete ==
    \E umask \in Umasks, fault \in LoadFaults :
        Invoke("delete", deleteConfiguration(store, settings, winEnv, Imported(fault),
                                             args.name, umask, fault))

Activate ==
    \E umask \in Umasks, fault \in Faults \cup WindowsFaults :
        Invoke("activate", activateConfiguration(goos, store, settings, winEnv,
                                                 Imported(fault), args.name,
                                                 umask, fault))

\* The process ends; its exit status and output are gone.
Exit ==
    /\ pc = "exit"
    /\ pc' = "shell"
    /\ args' = NoArgs
    /\ result' = ""
    /\ warning' = ""
    /\ UNCHANGED <<goos, store, settings, winEnv>>

Next ==
    \/ \E a \in CommandLines : Start(a)
    \/ List
    \/ Add
    \/ Update
    \/ Delete
    \/ Activate
    \/ Exit

Spec == Init /\ [][Next]_vars

(***************************************************************************)
(* maskAPIKey and extractDomainFromURL on their own: a call of the         *)
(* function with its argument in args and its value in result.             *)
(***************************************************************************)
\* The bytes of the keys: two that are not the mask character, and it.
KeyBytes == {"s", "k", "*"}

\* Every key of at most MaxKeyLen bytes.
ApiKeys == UNION {[1..n -> KeyBytes] : n \in 0..MaxKeyLen}

\* The labels of the hostnames.
Labels == {"www", "api", "a", "com"}

\* Every hostname of at most MaxLabels labels; <<>> is the empty hostname.
Hostnames == UNION {[1..n -> Labels] : n \in 0..MaxLabels}

\* No files, no environment, no invocation under way, and the argument.
Called(function, a) ==
    /\ goos = "linux"
    /\ store = AbsentStore
    /\ settings = AbsentSettings
    /\ winEnv = NoWinEnv
    /\ pc = function
    /\ args = a
    /\ result = <<>>
    /\ warning = ""

MaskInit == \E apiKey \in ApiKeys : Called("maskAPIKey", apiKey)

\* maskAPIKey(args) returns.
Mask ==
    /\ pc = "maskAPIKey"
    /\ pc' = "return"
    /\ result' = maskAPIKey(args)
    /\ UNCHANGED <<goos, store, settings, winEnv, args, warning>>

MaskNext == Mask

MaskSpec == MaskInit /\ [][MaskNext]_vars

ExtractInit == \E hostname \in Hostnames : Called("extractDomainFromURL", hostname)

\* extractDomainFromURL returns, for a URL whose hostname is args.
Extract ==
    /\ pc = "extractDomainFromURL"
    /\ pc' = "return"
    /\ result' = extractDomainFromHostname(args)
    /\ UNCHANGED <<goos, store, settings, winEnv, args, warning>>

ExtractNext == Extract

ExtractSpec == ExtractInit /\ [][ExtractNext]_vars

(***************************************************************************)
(* Properties.                                                             *)
(***************************************************************************)
\* main is about to run this command.
Running(command) == pc = "main" /\ args.cmd = command

\* main has run this command to its end.
Ran(command) == pc = "exit" /\ args.cmd = command

\* The entries of a collection that are active.
ActiveSet(confs) == {i \in DOMAIN confs : confs[i].active}

\* Some entry of the collection has this name.
HasName(confs, name) == \E i \in DOMAIN confs : confs[i].name = name

\* The errors of the domain, as opposed to I/O errors.
DomainErrors == {"DuplicateName", "NotFound", "ActiveProfileDeletion", "CorruptStore"}

\* C1: starting from an absent or empty store, after any sequence of
\* invocations the persisted collection holds at most one active profile.
C1_AtMostOneActive == Cardinality(ActiveSet(store.confs)) <= 1

\* The collection loadConfig hands to a command that gets as far as saving:
\* the store's own, or on a first run what auto-import found.
Loaded == IF store.kind = "absent" THEN Imported("none") ELSE store.confs

\* C2: a successful add stores the new profile last, active if and only if
\* the collection loaded for the invocation was empty; it leaves the active
\* flag of every profile loaded (an auto-imported one included) as it was.
C2_AddActiveIffLoadedEmpty ==
    [][Running("add") /\ result' = "" =>
        /\ store'.kind = "ok"
        /\ Len(store'.confs) = Len(Loaded) + 1
        /\ store'.confs[Len(store'.confs)].active = (Loaded = <<>>)
        /\ \A i \in DOMAIN Loaded : store'.confs[i].active = Loaded[i].active]_vars

\* C2 witness: an add into a non-empty collection has stored an inactive
\* profile behind the active one.
C2_Witness ==
    /\ Ran("add") /\ result = ""
    /\ Len(store.confs) = 2
    /\ store.confs[1].active /\ ~store.confs[2].active

\* C3: a delete naming a profile that the persisted collection holds as
\* active fails with ActiveProfileDeletion (unless the store cannot be read:
\* IOError) and leaves the store file as it was.
C3_DeleteActiveRefused ==
    [][(/\ Running("delete")
        /\ store.kind = "ok"
        /\ \E i \in DOMAIN store.confs :
              store.confs[i].name = args.name /\ store.confs[i].active)
       => /\ result' \in {"ActiveProfileDeletion", "IOError"}
          /\ store' = store]_vars

\* C3 witness: a delete of the active profile of a two-profile store has
\* been refused.
C3_Witness ==
    /\ Ran("delete") /\ result = "ActiveProfileDeletion"
    /\ Len(store.confs) = 2
    /\ \E i \in DOMAIN store.confs :
          store.confs[i].name = args.name /\ store.confs[i].active

\* C4: activate fails with NotFound when no loaded profile has the name
\* (unless the store cannot be read); when it persists the collection, the
\* profiles named so are active and every other profile inactive, whatever
\* the flags were, and every name, endpoint and secret is as loaded.
C4_ActivateSetsExactlyNamed ==
    [][Running("activate") =>
        /\ (store.kind = "ok" /\ ~HasName(store.confs, args.name))
              => result' \in {"NotFound", "IOError"} /\ store' = store
        /\ (store.kind = "absent" /\ ~HasName(Imported("none"), args.name))
              => result' = "NotFound"
        /\ (result' = "" \/ (result' = "IOError" /\ store'.kind = "ok" /\ store' # store))
              => /\ HasName(Loaded, args.name)
                 /\ store'.kind = "ok"
                 /\ Len(store'.confs) = Len(Loaded)
                 /\ \A i \in DOMAIN Loaded :
                       /\ store'.confs[i].name = Loaded[i].name
                       /\ store'.confs[i].base_url = Loaded[i].base_url
                       /\ store'.confs[i].api_key = Loaded[i].api_key
                       /\ store'.confs[i].active = (Loaded[i].name = args.name)]_vars

\* C4 witness: an activate has moved the active flag from the first profile
\* to the second.
C4_Witness ==
    /\ Ran("activate") /\ result = ""
    /\ Len(store.confs) = 2
    /\ ~store.confs[1].active
    /\ store.confs[2].active /\ store.confs[2].name = args.name

\* C5: activate is idempotent: once an activate has succeeded, activating
\* the same name again succeeds and leaves the store file and the settings
\* file exactly as the first left them.
C5_ActivateIdempotent ==
    Ran("activate") /\ result = "" =>
        \A umask \in Umasks :
            LET again == activateConfiguration(goos, store, settings, winEnv,
                                               Imported("none"), args.name, umask, "none")
            IN /\ again.err = ""
               /\ again.store = store
               /\ again.settings = settings

\* C5 witness: an activate on linux has succeeded on a two-profile store
\* and rewritten the settings file.
C5_Witness ==
    /\ Ran("activate") /\ result = "" /\ goos = "linux"
    /\ Len(store.confs) = 2
    /\ settings.kind = "ok"

\* C6 as claimed: an add, update, delete or activate that ends with a
\* domain error leaves the store file at its prior state, also on a first
\* run with settings to import.
C6_DomainErrorLeavesStore ==
    [][pc = "main" /\ result' \in DomainErrors => store' = store]_vars

\* C6 as amended: an invocation that ends with a domain error leaves the
\* store file at its prior state, except on a first run (no store file)
\* where auto-import finds a profile: load has then written the store, which
\* holds the imported profile alone (or nothing that parses, when that write
\* failed part-way).
C6_DomainErrorLeavesStoreButImport ==
    [][pc = "main" /\ result' \in DomainErrors =>
        \/ store' = store
        \/ /\ store.kind = "absent"
           /\ Imported("none") # <<>>
           /\ \/ store'.kind = "ok" /\ store'.confs = Imported("none")
              \/ store'.kind = "corrupt"]_vars

\* C6 witness: an add has ended with DuplicateName on a store that holds
\* the profile auto-import makes of the settings file, and nothing else.
C6_Witness ==
    /\ Ran("add") /\ result = "DuplicateName"
    /\ store.kind = "ok"
    /\ store.confs = Imported("none")
    /\ Len(store.confs) = 1

\* C7: after a successful activate on linux the env map of the settings
\* file has ANTHROPIC_BASE_URL equal to the stored endpoint of the profile
\* named, and ANTHROPIC_AUTH_TOKEN equal to its stored secret.
C7_SettingsHoldActivatedProfile ==
    Ran("activate") /\ result = "" /\ goos = "linux" =>
        /\ settings.kind = "ok"
        /\ settings.hasEnv
        /\ \E i \in DOMAIN store.confs :
              /\ store.confs[i].name = args.name
              /\ settings.env["ANTHROPIC_BASE_URL"] = Str(store.confs[i].base_url)
              /\ settings.env["ANTHROPIC_AUTH_TOKEN"] = Str(store.confs[i].api_key)

\* C7 witness: an activate has succeeded over a settings file that did not
\* parse, and the file now holds the profile's endpoint.
C7_Witness ==
    /\ Ran("activate") /\ result = "" /\ goos = "linux"
    /\ warning = "CorruptSettings"
    /\ settings.env["ANTHROPIC_BASE_URL"] = Str("https://b.test")

\* The keys activation owns.
IdentityKeys == {"ANTHROPIC_AUTH_TOKEN", "ANTHROPIC_BASE_URL"}

\* C8: a successful activate on linux over a settings file that parses
\* keeps every key it found, other than the two identity keys, with its
\* value: the keys of env and the keys of the object outside env.
C8_OtherKeysPreserved ==
    [][Running("activate") /\ goos = "linux" /\ settings.kind = "ok" /\ result' = "" =>
        /\ settings'.top = settings.top
        /\ \A k \in EnvKeys \ IdentityKeys :
              settings.hasEnv /\ settings.env[k].t # "absent"
                 => settings'.env[k] = settings.env[k]]_vars

\* The keys activation gives a default, and the defaults.
DefaultKeys == {"API_TIMEOUT_MS", "CLAUDE_CODE_DISABLE_NONESSENTIAL_TRAFFIC"}
DefaultValue(k) == IF k = "API_TIMEOUT_MS" THEN Str("3000000") ELSE Num(1)

\* C9: a successful activate on linux leaves a value that a parseable
\* settings file has for API_TIMEOUT_MS or
\* CLAUDE_CODE_DISABLE_NONESSENTIAL_TRAFFIC as it is, and sets the default
\* ("3000000", 1) for each of the two keys that the file did not have.
C9_DefaultsOnlyWhenAbsent ==
    [][Running("activate") /\ goos = "linux" /\ result' = "" =>
        \A k \in DefaultKeys :
            IF settings.kind = "ok" /\ settings.hasEnv /\ settings.env[k].t # "absent"
            THEN settings'.env[k] = settings.env[k]
            ELSE settings'.env[k] = DefaultValue(k)]_vars

\* C9 witness: an activate has succeeded and the settings file still has
\* the user's own timeout, with the other default key set too.
C9_Witness ==
    /\ Ran("activate") /\ result = "" /\ goos = "linux"
    /\ settings.env["API_TIMEOUT_MS"] = Str("600000")
    /\ settings.env["CLAUDE_CODE_DISABLE_NONESSENTIAL_TRAFFIC"] = Num(0)

\* C10: on linux and darwin every write of the store file leaves it with
\* permissions for its owner alone: no bit of group or other (077) is set.
C10_StoreOwnerOnly ==
    [][goos = "linux" /\ store' # store /\ store'.kind # "absent"
          => store'.mode % 64 = 0]_vars

\* The collection the command under way holds in memory when it gets as far
\* as calling saveConfig: the loaded collection with the command's change.
InMemory ==
    CASE args.cmd = "add" ->
            Append(Loaded, newConfiguration(Loaded, args.name, args.base_url, args.api_key))
      [] args.cmd = "update" ->
            LET i == findConfiguration(Loaded, args.name)
            IN [Loaded EXCEPT
                  ![i].base_url = IF args.base_url # "" THEN args.base_url ELSE @,
                  ![i].api_key = IF args.api_key # "" THEN args.api_key ELSE @]
      [] args.cmd = "delete" ->
            SelectSeq(Loaded, LAMBDA c : c.name # args.name)
      [] args.cmd = "activate" -> setActiveConfiguration(Loaded, args.name)
      [] OTHER -> Loaded

\* The command under way gets as far as calling saveConfig when no I/O fails.
Saves ==
    /\ pc = "main"
    /\ store.kind # "corrupt"
    /\ CASE args.cmd = "add" -> ~HasName(Loaded, args.name)
         [] args.cmd = "update" -> HasName(Loaded, args.name)
         [] args.cmd = "delete" ->
               /\ HasName(Loaded, args.name)
               /\ ~Loaded[findConfiguration(Loaded, args.name)].active
         [] args.cmd = "activate" -> HasName(Loaded, args.name)
         [] OTHER -> FALSE

\* C11: round trip: the collection a command saves, loaded again from the
\* store file it was saved to, is the same sequence of profiles, each with
\* the same name, endpoint, secret and active flag.
C11_RoundTrip ==
    Saves =>
        \A umask \in Umasks :
            LET saved == saveConfig(store, InMemory, umask, "none")
                again == loadConfig(saved.store, Imported("none"), umask, "none")
            IN /\ saved.err = "" /\ again.err = ""
               /\ again.confs = InMemory

\* The end-to-end run of C12 from the current state, when it has no store
\* file and no platform settings: add a, add b, delete a, activate b,
\* delete a.
C12_Scenario ==
    (pc = "shell" /\ store = AbsentStore /\ settings = AbsentSettings /\ winEnv = NoWinEnv)
    => \A umask \in Umasks :
        LET add1 == addConfiguration(store, settings, winEnv, Imported("none"),
                                     "a", "https://x.test", "12345678", umask, "none")
            add2 == addConfiguration(add1.store, add1.settings, add1.winEnv, <<>>,
                                     "b", "https://y.test", "87654321", umask, "none")
            del1 == deleteConfiguration(add2.store, add2.settings, add2.winEnv, <<>>,
                                        "a", umask, "none")
            act == activateConfiguration(goos, del1.store, del1.settings, del1.winEnv,
                                         <<>>, "b", umask, "none")
            del2 == deleteConfiguration(act.store, act.settings, act.winEnv,
                                        importedConfig(goos, act.settings, act.winEnv, "none"),
                                        "a", umask, "none")
        IN /\ add1.err = "" /\ add2.err = ""
           /\ del1.err = "ActiveProfileDeletion" /\ del1.store = add2.store
           /\ act.err = ""
           /\ del2.err = ""
           /\ del2.store.confs = <<Configuration("b", "https://y.test", "87654321", TRUE)>>

\* C12: the scenario holds, and in general a delete naming a profile of the
\* persisted collection succeeds if and only if the profile is inactive
\* (when no I/O fails): refused while active, the store file as it was;
\* otherwise the profiles of that name are removed and every other profile
\* stays, in order and with its fields.
C12_DeleteIffInactive ==
    [][/\ C12_Scenario
       /\ (Running("delete") /\ store.kind = "ok" /\ HasName(store.confs, args.name))
          => LET i == findConfiguration(store.confs, args.name)
                 named(c) == c.name = args.name
                 other(c) == c.name # args.name
             IN /\ \A umask \in Umasks :
                      (deleteConfiguration(store, settings, winEnv, Imported("none"),
                                           args.name, umask, "none").err = "")
                         <=> ~store.confs[i].active
                /\ result' \in {"", "ActiveProfileDeletion", "IOError"}
                /\ result' = "ActiveProfileDeletion" <=>
                      (store.confs[i].active /\ result' # "IOError")
                /\ result' = "ActiveProfileDeletion" => store' = store
                /\ result' = "" =>
                      /\ store'.kind = "ok"
                      /\ store'.confs = SelectSeq(store.confs, other)
                      /\ SelectSeq(store'.confs, named) = <<>>]_vars

\* C12 witness: on linux a delete has succeeded and left one profile, which
\* is active and is the one the settings file was last activated with.
C12_Witness ==
    /\ Ran("delete") /\ result = "" /\ goos = "linux"
    /\ Len(store.confs) = 1
    /\ store.confs[1].active /\ store.confs[1].name # args.name
    /\ settings.kind = "ok"
    /\ settings.env["ANTHROPIC_BASE_URL"] = Str(store.confs[1].base_url)
    /\ settings.env["ANTHROPIC_AUTH_TOKEN"] = Str(store.confs[1].api_key)

\* C13: starting from an absent or empty store, after any sequence of
\* invocations no two profiles of the persisted collection have the same
\* name.
C13_NamesUnique ==
    \A i, j \in DOMAIN store.confs :
        store.confs[i].name = store.confs[j].name => i = j

\* C14: update on a name the loaded collection lacks fails with NotFound
\* (unless the store cannot be read); on a name it holds, update succeeds
\* when no I/O fails, also with both flags omitted, and a successful update
\* stores the endpoint given, or the old one when none was given, and the
\* same for the secret; the target's name and active flag, every other
\* profile and the order are as loaded.
C14_UpdateOverwritesGiven ==
    [][Running("update") =>
        /\ (store.kind = "ok" /\ ~HasName(store.confs, args.name))
              => result' \in {"NotFound", "IOError"} /\ store' = store
        /\ (store.kind = "absent" /\ ~HasName(Imported("none"), args.name))
              => result' = "NotFound"
        /\ (store.kind # "corrupt" /\ HasName(Loaded, args.name))
              => \A umask \in Umasks :
                    updateConfiguration(store, settings, winEnv, Imported("none"),
                                        args.name, args.base_url, args.api_key,
                                        umask, "none").err = ""
        /\ result' = ""
              => /\ HasName(Loaded, args.name)
                 /\ store'.kind = "ok"
                 /\ Len(store'.confs) = Len(Loaded)
                 /\ LET i == findConfiguration(Loaded, args.name)
                    IN /\ store'.confs[i].name = Loaded[i].name
                       /\ store'.confs[i].active = Loaded[i].active
                       /\ store'.confs[i].base_url =
                             (IF args.base_url # "" THEN args.base_url
                              ELSE Loaded[i].base_url)
                       /\ store'.confs[i].api_key =
                             (IF args.api_key # "" THEN args.api_key
                              ELSE Loaded[i].api_key)
                       /\ \A j \in DOMAIN Loaded :
                             j # i => store'.confs[j] = Loaded[j]]_vars

\* C14 witness: an update that gave only a secret has changed the second,
\* inactive profile of a two-profile store, whose endpoint differs from the
\* first's; and the secret differs from the first profile's.
C14_Witness ==
    /\ Ran("update") /\ result = ""
    /\ args.base_url = "" /\ args.api_key = "k2"
    /\ Len(store.confs) = 2
    /\ store.confs[2].name = args.name /\ store.confs[1].name # args.name
    /\ store.confs[2].api_key = "k2" /\ store.confs[2].base_url = "https://b.test"
    /\ store.confs[1].api_key = "k1" /\ store.confs[1].active

\* The endpoint and the secret the platform source provides, "" for none:
\* the two environment variables on windows, the two string values of the
\* env map of a settings file that parses on linux and darwin.
SourceValue(key) ==
    CASE goos = "windows" ->
            (IF key = "ANTHROPIC_BASE_URL" THEN winEnv.base_url ELSE winEnv.auth_token)
      [] goos = "linux" /\ settings.kind = "ok" /\ settings.hasEnv
            /\ settings.env[key].t = "str" -> settings.env[key].s
      [] OTHER -> ""

\* The one-profile collection C15 expects of a source that provides both.
SourceProfile ==
    <<Configuration(extractDomainFromURL(SourceValue("ANTHROPIC_BASE_URL")),
                    SourceValue("ANTHROPIC_BASE_URL"),
                    SourceValue("ANTHROPIC_AUTH_TOKEN"), TRUE)>>

SourceProvidesBoth ==
    SourceValue("ANTHROPIC_BASE_URL") # "" /\ SourceValue("ANTHROPIC_AUTH_TOKEN") # ""

\* C15: with no store file, load (when no I/O fails) returns and persists
\* the one active profile made of the endpoint and the secret of the
\* platform source, named after the endpoint, if the source provides both
\* non-empty; else it returns the empty collection and creates no store
\* file.  With a store file, load does not depend on the platform source.
\* A list step shows the same: it is load and nothing else.
C15_ImportOnlyWithoutStore ==
    [][/\ \A umask \in Umasks :
            LET ld == loadConfig(store, Imported("none"), umask, "none")
            IN IF store.kind # "absent"
               THEN /\ ld = loadConfig(store, <<>>, umask, "none")
                    /\ ld.store = store
               ELSE IF SourceProvidesBoth
               THEN /\ ld.err = "" /\ ld.confs = SourceProfile
                    /\ ld.store.kind = "ok" /\ ld.store.confs = SourceProfile
               ELSE /\ ld.err = "" /\ ld.confs = <<>> /\ ld.store = store
       /\ Running("list") =>
            IF store.kind # "absent" THEN store' = store
            ELSE /\ result' = ""
                 /\ IF SourceProvidesBoth
                    THEN \/ store'.kind = "ok" /\ store'.confs = SourceProfile
                         \/ store'.kind = "corrupt"
                         \/ store' = store
                    ELSE store' = store]_vars

\* C15 witness: a list on linux has left a store file that holds the one
\* profile of the settings file, active and named after the endpoint.
C15_Witness ==
    /\ Ran("list") /\ result = "" /\ goos = "linux"
    /\ store.kind = "ok"
    /\ store.confs = <<Configuration("a", "https://api.a.com", "k1", TRUE)>>
    /\ settings.env["ANTHROPIC_BASE_URL"] = Str("https://api.a.com")
    /\ settings.env["ANTHROPIC_AUTH_TOKEN"] = Str("k1")
    /\ settings.top = {"permissions"}

\* C16: maskAPIKey of a key s of at most 8 bytes is len(s) mask characters;
\* of a longer key it has the length of s, the first 4 bytes of s, then
\* len(s) - 8 mask characters, then the last 4 bytes of s.
C16_MaskKeepsEndsOfLongKeys ==
    pc = "return" =>
        LET s == args
            m == result
        IN /\ Len(m) = Len(s)
           /\ IF Len(s) <= 8
              THEN \A i \in 1..Len(s) : m[i] = "*"
              ELSE /\ \A i \in 1..4 : m[i] = s[i]
                   /\ \A i \in (Len(s) - 3)..Len(s) : m[i] = s[i]
                   /\ \A i \in 5..(Len(s) - 4) : m[i] = "*"
                   /\ Cardinality(5..(Len(s) - 4)) = Len(s) - 8

\* C16 witness: a key of 10 bytes, none the mask character, has come back
\* with two mask characters between its ends.
C16_Witness ==
    /\ pc = "return"
    /\ Len(args) = 10
    /\ \A i \in 1..10 : args[i] # "*"
    /\ result[4] = args[4] /\ result[5] = "*" /\ result[6] = "*"
    /\ result[7] = args[7]

\* C17: extractDomainFromURL of an empty hostname is "default"; of any
\* other, with one leading label "www" stripped when another follows it:
\* the label at index 1 of three or more labels, the label at index 0 of
\* two, the label itself of one.
C17_ExtractNameByLabelCount ==
    pc = "return" =>
        LET stripped == IF Len(args) >= 2 /\ args[1] = "www" THEN Tail(args) ELSE args
        IN IF args = <<>> THEN result = "default"
           ELSE CASE Len(stripped) >= 3 -> result = stripped[2]
                  [] Len(stripped) = 2 -> result = stripped[1]
                  [] Len(stripped) = 1 -> result = stripped[1]

\* C17 witness: www.api.a.com has given "a".
C17_Witness ==
    /\ pc = "return"
    /\ args = <<"www", "api", "a", "com">>
    /\ result = "a"

\* C18: a list run with a store file leaves the store file, its contents
\* and their order, the settings file and the persistent environment as
\* they were.
C18_ListLeavesStore ==
    [][Running("list") /\ store.kind # "absent" =>
        /\ store' = store
        /\ settings' = settings
        /\ winEnv' = winEnv]_vars

\* C18 witness: a list has succeeded on a store whose two profiles are not
\* in ascending order of name, and they still are not.
C18_Witness ==
    /\ Ran("list") /\ result = ""
    /\ Len(store.confs) = 2
    /\ store.confs[1].name = ReplacementChar
    /\ store.confs[2].name = "a"
    /\ sortByName(store.confs) # store.confs

\* The env map C19 expects after a reset: the two identity keys with the
\* values of the profile, the two default keys with their defaults, no other.
ResetEnv(conf) ==
    [k \in EnvKeys |->
        CASE k = "ANTHROPIC_BASE_URL" -> Str(conf.base_url)
          [] k = "ANTHROPIC_AUTH_TOKEN" -> Str(conf.api_key)
          [] k \in DefaultKeys -> DefaultValue(k)
          [] OTHER -> Absent]

\* C19: an activate on linux of a stored profile, over a settings file that
\* does not parse, is not aborted by that: it succeeds when no I/O fails and
\* fails with IOError only; when it succeeds it has warned, and the
\* rewritten file holds an env map with exactly the two identity keys set
\* from the profile and the two default keys set to their defaults.
C19_CorruptSettingsReset ==
    [][(/\ Running("activate") /\ goos = "linux"
        /\ settings.kind = "corrupt"
        /\ store.kind = "ok" /\ HasName(store.confs, args.name))
       => /\ \A umask \in Umasks :
                LET out == activateConfiguration(goos, store, settings, winEnv,
                                                 Imported("none"), args.name,
                                                 umask, "none")
                IN out.err = "" /\ out.warning = "CorruptSettings"
          /\ result' \in {"", "IOError"}
          /\ result' = "" =>
                /\ warning' = "CorruptSettings"
                /\ settings'.kind = "ok" /\ settings'.hasEnv
                /\ settings'.top = {}
                /\ settings'.env =
                      ResetEnv(store.confs[findConfiguration(store.confs, args.name)])]_vars

\* C19 witness: an activate has succeeded with the warning, and the settings
\* file holds the second profile's values and the two defaults.
C19_Witness ==
    /\ Ran("activate") /\ result = "" /\ goos = "linux"
    /\ warning = "CorruptSettings"
    /\ Len(store.confs) = 2 /\ store.confs[2].name = args.name
    /\ store.confs[1].name # args.name
    /\ settings.env = ResetEnv(store.confs[2])
    /\ settings.env["API_TIMEOUT_MS"] = Str("3000000")
    /\ settings.env["CLAUDE_CODE_DISABLE_NONESSENTIAL_TRAFFIC"] = Num(1)

\* The store holds this collection with the flags activate(name) gives it.
ActivatedIn(st, confs, name) ==
    /\ st.kind = "ok"
    /\ Len(st.confs) = Len(confs)
    /\ \A i \in DOMAIN confs :
          st.confs[i] = [confs[i] EXCEPT !.active = (confs[i].name = name)]

\* The platform write of an activate fails under this condition.
PlatformWriteFails(fault) ==
    fault \in SettingsFaults /\ (fault = "settingsReadErr" => settings.kind # "absent")

\* C20 as claimed: an activate of a stored profile whose platform write
\* fails (linux: directory creation, settings read, settings write) ends
\* with IOError, and on an unsupported platform with a warning; the store
\* then has the profiles of that name active and no other, and the platform
\* settings are as they were.
C20_StoreSavedSettingsKept ==
    (/\ Running("activate") /\ goos # "windows"
     /\ store.kind = "ok" /\ HasName(store.confs, args.name))
    => \A umask \in Umasks :
          \A fault \in (IF goos = "linux" THEN SettingsFaults ELSE {"none"}) :
             LET out == activateConfiguration(goos, store, settings, winEnv,
                                              Imported(fault), args.name, umask, fault)
             IN IF goos = "linux"
                THEN PlatformWriteFails(fault) =>
                        /\ out.err = "IOError"
                        /\ ActivatedIn(out.store, store.confs, args.name)
                        /\ out.settings = settings
                ELSE /\ out.err = "" /\ out.warning = "UnsupportedPlatform"
                     /\ ActivatedIn(out.store, store.confs, args.name)
                     /\ out.settings = settings /\ out.winEnv = winEnv

\* C20 as amended: the same, except that a write of the settings file that
\* fails after the file was opened leaves a file that does not parse
\* instead of the previous values.
C20_StoreSavedSettingsKeptOrTruncated ==
    (/\ Running("activate") /\ goos # "windows"
     /\ store.kind = "ok" /\ HasName(store.confs, args.name))
    => \A umask \in Umasks :
          \A fault \in (IF goos = "linux" THEN SettingsFaults ELSE {"none"}) :
             LET out == activateConfiguration(goos, store, settings, winEnv,
                                              Imported(fault), args.name, umask, fault)
             IN IF goos = "linux"
                THEN PlatformWriteFails(fault) =>
                        /\ out.err = "IOError"
                        /\ ActivatedIn(out.store, store.confs, args.name)
                        /\ IF fault = "settingsWriteErr"
                           THEN out.settings.kind = "corrupt"
                           ELSE out.settings = settings
                ELSE /\ out.err = "" /\ out.warning = "UnsupportedPlatform"
                     /\ ActivatedIn(out.store, store.confs, args.name)
                     /\ out.settings = settings /\ out.winEnv = winEnv

\* C20 witness: an activate on linux has failed with IOError; the store has
\* the second profile active and the first not, and the settings file still
\* holds the first profile's endpoint and secret.
C20_Witness ==
    /\ Ran("activate") /\ result = "IOError" /\ goos = "linux"
    /\ Len(store.confs) = 2
    /\ store.confs[2].name = args.name /\ store.confs[2].active
    /\ ~store.confs[1].active
    /\ settings.kind = "ok"
    /\ settings.env["ANTHROPIC_BASE_URL"] = Str(store.confs[1].base_url)
    /\ settings.env["ANTHROPIC_AUTH_TOKEN"] = Str(store.confs[1].api_key)
    /\ store.confs[1].base_url # store.confs[2].base_url
    /\ store.confs[1].api_key # store.confs[2].api_key

\* C21: list, add, update and delete leave the settings file and the
\* persistent environment as they were, whatever they do to the store: also
\* an add that makes the first profile active and an update of the active
\* profile's endpoint or secret.
C21_OnlyActivateWritesSettings ==
    [][(pc = "main" /\ args.cmd \in {"list", "add", "update", "delete"})
          => settings' = settings /\ winEnv' = winEnv]_vars

\* C21 witness: on linux an update has changed the endpoint of the active
\* profile, and the settings file, written by an earlier activate of that
\* profile, still holds the secret it has and the endpoint it had.
C21_Witness ==
    /\ Ran("update") /\ result = "" /\ goos = "linux"
    /\ args.base_url # "" /\ args.api_key = ""
    /\ \E i \in DOMAIN store.confs :
          /\ store.confs[i].name = args.name /\ store.confs[i].active
          /\ store.confs[i].base_url = args.base_url
          /\ settings.kind = "ok"
          /\ settings.top = {}
          /\ settings.env["ANTHROPIC_AUTH_TOKEN"] = Str(store.confs[i].api_key)
          /\ settings.env["ANTHROPIC_BASE_URL"].t = "str"
          /\ settings.env["ANTHROPIC_BASE_URL"] # Str(store.confs[i].base_url)

\* C22: starting from an absent or empty store, the persisted collection is
\* at every step empty or holds exactly one active profile; and a store
\* file that holds a profile never comes to hold an empty collection.
C22_ExactlyOneActiveOnceNonEmpty ==
    [][/\ store'.kind = "ok" /\ store'.confs # <<>>
             => Cardinality(ActiveSet(store'.confs)) = 1
       /\ store.kind = "ok" /\ store.confs # <<>> /\ store'.kind = "ok"
             => store'.confs # <<>>]_vars

====
